---- MODULE Spec2Model ----
(***************************************************************************)
(* Model of crude-react (src/src/lib/jsx-dev-runtime.ts): the fiber arena, *)
(* the render phase (performUnitOfWork / reconcileChildren / useState),    *)
(* the commit phase (commitRoot / commitWork / commitDeletion / updateDom) *)
(* and the idle-callback driven workLoop, together with a small DOM.       *)
(***************************************************************************)
EXTENDS Integers, Sequences, FiniteSets, TLC

\* ------------------------------------------------------------------ bounds
\* number of render requests (render() calls and setter calls) explored
MaxRequests == 4

\* ------------------------------------------------------------ basic values
\* JavaScript `undefined` for a fiber or DOM reference (ids start at 1)
None == 0
\* `type` of the root fiber, which has none (isFiberRoot: !fiber.type)
NoType == "undefined"
\* a DOM text node whose nodeValue was set to null
NullValue == "null"
\* the arena index of the container passed to render()
Container == 1

ComponentTypes == {"Counter", "Empty"}

isFunctionComponent(type) == type \in ComponentTypes

isFiberRoot(type) == type = NoType

\* key.startsWith("on"), over the prop keys that occur
isEvent(key) == key \in {"onClick", "onReset"}

isProperty(key) == key # "children" /\ ~isEvent(key)

\* prop.toLowerCase().substring(2), over the event keys that occur
eventTypeOf(key) ==
  CASE key = "onClick" -> "click"
    [] key = "onReset" -> "reset"
    [] OTHER -> key

\* Number.prototype.toString for the naturals
Digit(d) == CASE d = 0 -> "0" [] d = 1 -> "1" [] d = 2 -> "2" [] d = 3 -> "3"
              [] d = 4 -> "4" [] d = 5 -> "5" [] d = 6 -> "6" [] d = 7 -> "7"
              [] d = 8 -> "8" [] OTHER -> "9"
RECURSIVE toString(_)
toString(n) ==
  IF n < 10 THEN Digit(n) ELSE toString(n \div 10) \o Digit(n % 10)

\* ------------------------------------------------------------------- props
\* props are the own keys other than `children` in insertion order (attrs,
\* a sequence of <<key, value>>) followed by the key `children`, which every
\* props object built by createElement, createTextElement, render and
\* setState has (hasChildren); the empty object {} has no key at all.
Props(attrs, children) ==
  [attrs |-> attrs, children |-> children, hasChildren |-> TRUE]

\* the empty object {} used by createDom
EmptyProps == [attrs |-> <<>>, children |-> <<>>, hasChildren |-> FALSE]

\* Object.keys(props)
objectKeys(props) ==
  [i \in 1..Len(props.attrs) |-> props.attrs[i][1]]
    \o (IF props.hasChildren THEN <<"children">> ELSE <<>>)

\* key in props
hasKey(props, key) == \E i \in 1..Len(objectKeys(props)) : objectKeys(props)[i] = key

attrIndex(props, key) == CHOOSE i \in 1..Len(props.attrs) : props.attrs[i][1] = key

\* props[key] for a key other than children that is present
getProp(props, key) == props.attrs[attrIndex(props, key)][2]

\* isNewProp as it would be if every key counted as changed
isNewPropAlways(prev, next, key) == TRUE

\* isNewProp(prev, next)(key): prev[key] !== next[key]
isNewProp(prev, next, key) ==
  IF key = "children"
    THEN hasKey(prev, key) # hasKey(next, key)
         \/ (hasKey(prev, key) /\ prev.children # next.children)
    ELSE hasKey(prev, key) # hasKey(next, key)
         \/ (hasKey(prev, key) /\ getProp(prev, key) # getProp(next, key))

\* isGoneProp as it would be if no key ever counted as removed
isGonePropNever(next, key) == FALSE

\* isGoneProp(next)(key): !(key in next)
isGoneProp(next, key) == ~hasKey(next, key)

\* ---------------------------------------------------------------- elements
\* createElement's result for a host tag or a component
Element(type, attrs, children) == [type |-> type, props |-> Props(attrs, children)]

createTextElement(text) ==
  [type |-> "TEXT_ELEMENT", props |-> Props(<<<<"nodeValue", text>>>>, <<>>)]

\* ------------------------------------------------------------------ fibers
\* React.Fiber; a reference is an index into the arena `fibers`
Fiber(type, props, dom, parent, alternate, effectTag) ==
  [type |-> type, props |-> props, dom |-> dom, parent |-> parent,
   sibling |-> None, child |-> None, alternate |-> alternate,
   effectTag |-> effectTag, hooks |-> <<>>]

\* ---------------------------------------------------------------- the DOM
\* a DOM node; a handle is an index into the arena `nodes`.  nodeType 1 is
\* an element, 3 a text node; listeners is the set of registered
\* <<event type, handler>> pairs; children are the attached child handles.
ElementNode(tag) ==
  [nodeType |-> 1, tag |-> tag, attrs |-> <<>>, listeners |-> {},
   nodeValue |-> NullValue, children |-> <<>>]

TextNode(value) ==
  [nodeType |-> 3, tag |-> "#text", attrs |-> <<>>, listeners |-> {},
   nodeValue |-> value, children |-> <<>>]

isTextNode(node) == node.nodeType = 3

isElementNode(node) == node.nodeType = 1

\* attrs is a sequence of <<name, value>> with distinct names
attrNames(node) == {node.attrs[i][1] : i \in 1..Len(node.attrs)}

RemoveAt(seq, i) == SubSeq(seq, 1, i - 1) \o SubSeq(seq, i + 1, Len(seq))

\* Element.setAttribute(name, value)
setAttribute(node, name, value) ==
  IF name \in attrNames(node)
    THEN [node EXCEPT !.attrs =
            [i \in 1..Len(node.attrs) |->
               IF node.attrs[i][1] = name THEN <<name, value>> ELSE node.attrs[i]]]
    ELSE [node EXCEPT !.attrs = Append(node.attrs, <<name, value>>)]

\* Element.removeAttribute(name)
removeAttribute(node, name) ==
  IF name \in attrNames(node)
    THEN [node EXCEPT !.attrs =
            RemoveAt(node.attrs, CHOOSE i \in 1..Len(node.attrs) : node.attrs[i][1] = name)]
    ELSE node

\* EventTarget.addEventListener / removeEventListener
addEventListener(node, eventType, handler) ==
  [node EXCEPT !.listeners = @ \cup {<<eventType, handler>>}]

removeEventListener(node, eventType, handler) ==
  [node EXCEPT !.listeners = @ \ {<<eventType, handler>>}]

\* updateDom works on d = [node, calls]: the node record and the number of
\* DOM mutations made on it so far (attribute set or removed, listener added
\* or removed, nodeValue written)
mutated(d, node) == [node |-> node, calls |-> d.calls + 1]

\* first loop of updateDom, from the key at position i of Object.keys(prevProps)
RECURSIVE updateDomRemove(_, _, _, _)
updateDomRemove(d, prevProps, nextProps, i) ==
  IF i > Len(objectKeys(prevProps)) THEN d
  ELSE LET prop == objectKeys(prevProps)[i] IN
    IF isTextNode(d.node)
      THEN IF isGoneProp(nextProps, prop)
             THEN mutated(d, [d.node EXCEPT !.nodeValue = NullValue]) ELSE d
    ELSE IF isEvent(prop)
            /\ (isGoneProp(nextProps, prop) \/ isNewProp(prevProps, nextProps, prop))
      THEN updateDomRemove(
             mutated(d, removeEventListener(d.node, eventTypeOf(prop),
                                            getProp(prevProps, prop))),
             prevProps, nextProps, i + 1)
    ELSE IF isProperty(prop) /\ isGoneProp(nextProps, prop)
      THEN updateDomRemove(mutated(d, removeAttribute(d.node, prop)),
                           prevProps, nextProps, i + 1)
    ELSE updateDomRemove(d, prevProps, nextProps, i + 1)

\* second loop of updateDom, from the key at position i of Object.keys(nextProps)
RECURSIVE updateDomAdd(_, _, _, _)
updateDomAdd(d, prevProps, nextProps, i) ==
  IF i > Len(objectKeys(nextProps)) THEN d
  ELSE LET prop == objectKeys(nextProps)[i] IN
    IF isTextNode(d.node)
      THEN IF isNewProp(prevProps, nextProps, prop)
             THEN mutated(d, [d.node EXCEPT !.nodeValue =
                                IF hasKey(nextProps, "nodeValue")
                                  THEN getProp(nextProps, "nodeValue")
                                  ELSE NullValue])
             ELSE d
    ELSE IF isEvent(prop) /\ isNewProp(prevProps, nextProps, prop)
      THEN updateDomAdd(
             mutated(d, addEventListener(d.node, eventTypeOf(prop),
                                         getProp(nextProps, prop))),
             prevProps, nextProps, i + 1)
    ELSE IF isProperty(prop) /\ isNewProp(prevProps, nextProps, prop)
      THEN updateDomAdd(mutated(d, setAttribute(d.node, prop, getProp(nextProps, prop))),
                        prevProps, nextProps, i + 1)
    ELSE updateDomAdd(d, prevProps, nextProps, i + 1)

\* updateDom(dom, prevProps, nextProps), on the node record of dom
updateDom(node, prevProps, nextProps) ==
  updateDomAdd(updateDomRemove([node |-> node, calls |-> 0], prevProps, nextProps, 1),
               prevProps, nextProps, 1)

\* createDom(fiber): the new node (not yet in the heap, attached nowhere)
createDom(fiber) ==
  IF fiber.type = "TEXT_ELEMENT"
    THEN TextNode(getProp(fiber.props, "nodeValue"))
    ELSE updateDom(ElementNode(fiber.type), EmptyProps, fiber.props).node

\* the node whose children hold `child`, None when it is attached nowhere
parentNode(nodes, child) ==
  IF \E p \in 1..Len(nodes) : \E i \in 1..Len(nodes[p].children) :
          nodes[p].children[i] = child
    THEN CHOOSE p \in 1..Len(nodes) : \E i \in 1..Len(nodes[p].children) :
          nodes[p].children[i] = child
    ELSE None

detach(nodes, child) ==
  LET p == parentNode(nodes, child)
  IN IF p = None THEN nodes
     ELSE [nodes EXCEPT ![p].children =
             RemoveAt(@, CHOOSE i \in 1..Len(@) : @[i] = child)]

\* the handles of `node` and of the nodes attached below it
RECURSIVE subtree(_, _)
subtree(nodes, node) ==
  {node} \cup UNION {subtree(nodes, nodes[node].children[i]) :
                       i \in 1..Len(nodes[node].children)}

\* Node.appendChild(child): moves child from wherever it is to the end of
\* parent's children; HierarchyRequestError when child contains parent
appendChild(m, parent, child) ==
  IF parent \in subtree(m.nodes, child) THEN [m EXCEPT !.thrown = TRUE]
  ELSE [m EXCEPT !.nodes =
                   [detach(m.nodes, child) EXCEPT ![parent].children = Append(@, child)],
                 !.calls = @ + 1]

\* Node.removeChild(child): NotFoundError when child is not a child of parent
removeChild(m, parent, child) ==
  IF parentNode(m.nodes, child) # parent THEN [m EXCEPT !.thrown = TRUE]
  ELSE [m EXCEPT !.nodes = detach(m.nodes, child), !.calls = @ + 1]

\* the loop `while (!domParentFiber.dom)` of commitWork, None when it runs
\* off the top of the tree
RECURSIVE domParentFiberOf(_, _)
domParentFiberOf(fibers, fiber) ==
  IF fiber = None THEN None
  ELSE IF fibers[fiber].dom # None THEN fiber
  ELSE domParentFiberOf(fibers, fibers[fiber].parent)

\* ------------------------------------------------------------ render phase
\* The operators below work on the module-level state of the runtime, held
\* in a record m: fibers (the heap of fibers), nodes (the heap of DOM
\* nodes), deletions, wipFiber, hookIndex, thrown (an Error was thrown and
\* is propagating), calls (the number of DOM mutations made so far) and log
\* (the fibers commitWork has handled so far, in order).

\* sameType as it would be if the types were not compared
sameTypeAsUntyped(fibers, oldFiber, elements, index) ==
  oldFiber # None /\ index < Len(elements)

\* `const sameType = oldFiber && element && oldFiber.type === element.type`
sameTypeAs(fibers, oldFiber, elements, index) ==
  oldFiber # None /\ index < Len(elements)
  /\ fibers[oldFiber].type = elements[index + 1].type

\* newFiber as it would be if a same-type match did not take over the dom
reconciledFiberWithoutDom(fibers, wip, oldFiber, element, sameType) ==
  IF sameType
    THEN Fiber(fibers[oldFiber].type, element.props, None, wip, oldFiber, "UPDATE")
    ELSE Fiber(element.type, element.props, None, wip, None, "PLACEMENT")

\* the newFiber object reconcileChildren builds for `element`
reconciledFiber(fibers, wip, oldFiber, element, sameType) ==
  IF sameType
    THEN Fiber(fibers[oldFiber].type, element.props, fibers[oldFiber].dom,
               wip, oldFiber, "UPDATE")
    ELSE Fiber(element.type, element.props, None, wip, None, "PLACEMENT")

\* reconcileLoop as it would be if an unmatched old fiber were neither
\* tagged nor pushed to deletions
RECURSIVE reconcileLoopKeepingOld(_, _, _, _, _, _)
reconcileLoopKeepingOld(m, wip, elements, index, oldFiber, prevSibling) ==
  IF ~(index < Len(elements) \/ oldFiber # None) THEN m
  ELSE
    LET hasElement == index < Len(elements)
        sameType == sameTypeAs(m.fibers, oldFiber, elements, index)
        newFiber == IF hasElement THEN Len(m.fibers) + 1 ELSE None
        f1 == IF hasElement
                THEN Append(m.fibers,
                            reconciledFiber(m.fibers, wip, oldFiber,
                                            elements[index + 1], sameType))
                ELSE m.fibers
        nextOld == IF oldFiber # None THEN f1[oldFiber].sibling ELSE None
        f3 == IF index = 0 THEN [f1 EXCEPT ![wip].child = newFiber]
              ELSE IF hasElement THEN [f1 EXCEPT ![prevSibling].sibling = newFiber]
              ELSE f1
    IN reconcileLoopKeepingOld([m EXCEPT !.fibers = f3],
                               wip, elements, index + 1, nextOld, newFiber)

\* body of the while loop of reconcileChildren, from `index` on
RECURSIVE reconcileLoop(_, _, _, _, _, _)
reconcileLoop(m, wip, elements, index, oldFiber, prevSibling) ==
  IF ~(index < Len(elements) \/ oldFiber # None) THEN m
  ELSE
    LET hasElement == index < Len(elements)
        sameType == sameTypeAs(m.fibers, oldFiber, elements, index)
        newFiber == IF hasElement THEN Len(m.fibers) + 1 ELSE None
        f1 == IF hasElement
                THEN Append(m.fibers,
                            reconciledFiber(m.fibers, wip, oldFiber,
                                            elements[index + 1], sameType))
                ELSE m.fibers
        deleted == oldFiber # None /\ ~sameType
        f2 == IF deleted THEN [f1 EXCEPT ![oldFiber].effectTag = "DELETION"] ELSE f1
        d2 == IF deleted THEN Append(m.deletions, oldFiber) ELSE m.deletions
        nextOld == IF oldFiber # None THEN f2[oldFiber].sibling ELSE None
        f3 == IF index = 0 THEN [f2 EXCEPT ![wip].child = newFiber]
              ELSE IF hasElement THEN [f2 EXCEPT ![prevSibling].sibling = newFiber]
              ELSE f2
    IN IF index # 0 /\ hasElement /\ prevSibling = None
         THEN [m EXCEPT !.fibers = f2, !.deletions = d2, !.thrown = TRUE]
         ELSE reconcileLoop([m EXCEPT !.fibers = f3, !.deletions = d2],
                            wip, elements, index + 1, nextOld, newFiber)

\* reconcileChildren as it would be if the walk over the previous children
\* started at the second one
reconcileChildrenSkippingFirst(m, wip, elements) ==
  reconcileLoop(m, wip, elements, 0,
                IF m.fibers[wip].alternate # None
                   /\ m.fibers[m.fibers[wip].alternate].child # None
                  THEN m.fibers[m.fibers[m.fibers[wip].alternate].child].sibling
                  ELSE None,
                None)

\* reconcileChildren(wipFiber, elements)
reconcileChildren(m, wip, elements) ==
  reconcileLoop(m, wip, elements, 0,
                IF m.fibers[wip].alternate # None
                  THEN m.fibers[m.fibers[wip].alternate].child ELSE None,
                None)

\* --------------------------------------------------------------------- hooks
\* the actions the modelled components pass to their setter:
\* (count) => count + 1, a function, and a plain value
IncAction == [fn |-> TRUE, value |-> 0]
ResetAction == [fn |-> FALSE, value |-> 5]

isFnAction(action) == action.fn

\* applyActions as it would be if the queue were applied newest first
RECURSIVE applyActionsNewestFirst(_, _, _)
applyActionsNewestFirst(state, actions, i) ==
  IF i > Len(actions) THEN state
  ELSE LET action == actions[Len(actions) + 1 - i]
       IN applyActionsNewestFirst(IF isFnAction(action) THEN state + 1 ELSE action.value,
                                  actions, i + 1)

\* the loop `for (const action of actions)` of useState, from position i
RECURSIVE applyActions(_, _, _)
applyActions(state, actions, i) ==
  IF i > Len(actions) THEN state
  ELSE applyActions(IF isFnAction(actions[i]) THEN state + 1 ELSE actions[i].value,
                    actions, i + 1)

\* useState as it would be if it did not read the state of the old hook
useStateFromInitial(m, initial) ==
  LET alt == m.fibers[m.wipFiber].alternate
      hasOld == alt # None /\ m.hookIndex < Len(m.fibers[alt].hooks)
      oldHook == m.fibers[alt].hooks[m.hookIndex + 1]
      hook == [state |-> applyActions(initial,
                                      IF hasOld THEN oldHook.queue ELSE <<>>, 1),
               queue |-> <<>>]
  IN [m EXCEPT !.fibers[m.wipFiber].hooks = Append(@, hook),
               !.hookIndex = @ + 1]

\* useState(initial) up to hookIndex++; the value it returns is the state
\* of the hook pushed last
useState(m, initial) ==
  LET alt == m.fibers[m.wipFiber].alternate
      hasOld == alt # None /\ m.hookIndex < Len(m.fibers[alt].hooks)
      oldHook == m.fibers[alt].hooks[m.hookIndex + 1]
      hook == [state |-> applyActions(IF hasOld THEN oldHook.state ELSE initial,
                                      IF hasOld THEN oldHook.queue ELSE <<>>, 1),
               queue |-> <<>>]
  IN [m EXCEPT !.fibers[m.wipFiber].hooks = Append(@, hook),
               !.hookIndex = @ + 1]

\* a closure () => setState(action) created while `fiber` was evaluated,
\* setState being the setter of that fiber's hook number `hook`
Handler(fiber, hook, action) == [fiber |-> fiber, hook |-> hook, action |-> action]

\* --------------------------------------------------------------- components
\* The function components of the playground.  Each yields the runtime
\* state after its useState calls and the value it returns (fcReturn):
\* "null", a "primitive" or an "element".
InitialCount == 1

\* Counter: one useState(1); an h1 showing the count whose listeners
\* increment the count or replace it by a plain value
Counter(m, props) ==
  LET m1 == useState(m, InitialCount)
      hooks == m1.fibers[m1.wipFiber].hooks
      state == hooks[Len(hooks)].state
  IN [m |-> m1,
      kind |-> "element",
      element |-> Element("h1",
                    <<<<"onClick", Handler(m1.wipFiber, Len(hooks), IncAction)>>,
                      <<"onReset", Handler(m1.wipFiber, Len(hooks), ResetAction)>>>>,
                    <<createTextElement(toString(state))>>)]

\* Empty: a component that returns null
Empty(m, props) ==
  [m |-> m, kind |-> "null", element |-> createTextElement("")]

\* fiber.type(fiber.props)
callComponent(m, type, props) ==
  CASE type = "Counter" -> Counter(m, props)
    [] OTHER -> Empty(m, props)

\* evaluateFunctionComponent(fiber): the runtime state after the call and
\* the children array
evaluateFunctionComponent(m, fiber) ==
  LET fcReturn == callComponent(m, m.fibers[fiber].type, m.fibers[fiber].props)
  IN [m |-> fcReturn.m,
      children |-> IF fcReturn.kind = "primitive" THEN <<fcReturn.element>>
                   ELSE IF fcReturn.kind = "element" THEN <<fcReturn.element>>
                   ELSE <<>>]

\* updateFunctionComponent(fiber)
updateFunctionComponent(m, fiber) ==
  IF ~isFunctionComponent(m.fibers[fiber].type) THEN [m EXCEPT !.thrown = TRUE]
  ELSE
    LET m1 == [m EXCEPT !.wipFiber = fiber, !.hookIndex = 0,
                        !.fibers[fiber].hooks = <<>>]
        ev == evaluateFunctionComponent(m1, fiber)
    IN reconcileChildren(ev.m, fiber, ev.children)

\* updateHostComponent as it would be if it attached the node it creates
\* right away (`fiber.parent.dom.appendChild(fiber.dom)` during the render)
updateHostComponentAttaching(m, fiber) ==
  IF m.fibers[fiber].dom = None /\ isFiberRoot(m.fibers[fiber].type)
    THEN [m EXCEPT !.thrown = TRUE]
  ELSE
    LET m1 == IF m.fibers[fiber].dom = None
                THEN appendChild(
                       [m EXCEPT !.nodes = Append(@, createDom(m.fibers[fiber])),
                                 !.fibers[fiber].dom = Len(m.nodes) + 1],
                       m.fibers[domParentFiberOf(m.fibers, m.fibers[fiber].parent)].dom,
                       Len(m.nodes) + 1)
                ELSE m
    IN reconcileChildren(m1, fiber, m1.fibers[fiber].props.children)

\* updateHostComponent(fiber)
updateHostComponent(m, fiber) ==
  IF m.fibers[fiber].dom = None /\ isFiberRoot(m.fibers[fiber].type)
    THEN [m EXCEPT !.thrown = TRUE]
  ELSE
    LET m1 == IF m.fibers[fiber].dom = None
                THEN [m EXCEPT !.nodes = Append(@, createDom(m.fibers[fiber])),
                               !.fibers[fiber].dom = Len(m.nodes) + 1]
                ELSE m
    IN reconcileChildren(m1, fiber, m1.fibers[fiber].props.children)

\* the search for the next unit of work at the end of performUnitOfWork:
\* from nextFiber upwards, the first sibling found
RECURSIVE nextSibling(_, _)
nextSibling(fibers, nextFiber) ==
  IF nextFiber = None THEN None
  ELSE IF fibers[nextFiber].sibling # None THEN fibers[nextFiber].sibling
  ELSE nextSibling(fibers, fibers[nextFiber].parent)

\* nextUnit as it would be if the sibling were tried before the child
nextUnitSiblingFirst(fibers, fiber) ==
  IF fibers[fiber].sibling # None THEN fibers[fiber].sibling
  ELSE IF fibers[fiber].child # None THEN fibers[fiber].child
  ELSE nextSibling(fibers, fibers[fiber].parent)

\* the fiber performUnitOfWork(fiber) returns once the fiber is updated
nextUnit(fibers, fiber) ==
  IF fibers[fiber].child # None THEN fibers[fiber].child
  ELSE nextSibling(fibers, fiber)

\* performUnitOfWork(fiber): the runtime state afterwards and the fiber returned
performUnitOfWork(m, fiber) ==
  LET m1 == IF isFunctionComponent(m.fibers[fiber].type)
              THEN updateFunctionComponent(m, fiber)
              ELSE updateHostComponent(m, fiber)
  IN [m |-> m1, next |-> IF m1.thrown THEN fiber ELSE nextUnit(m1.fibers, fiber)]

\* ------------------------------------------------------------ commit phase
\* commitDeletion(fiber, domParent)
RECURSIVE commitDeletion(_, _, _)
commitDeletion(m, fiber, domParent) ==
  IF m.fibers[fiber].dom # None THEN removeChild(m, domParent, m.fibers[fiber].dom)
  ELSE IF m.fibers[fiber].child # None
    THEN commitDeletion(m, m.fibers[fiber].child, domParent)
  ELSE m

\* the mutation commitWork applies for the fiber's effect tag.  m.log
\* records, for every fiber commitWork gets as far as the branch for, the
\* fiber, the branch taken ("NONE" when no branch applies) and domParent.
commitEffect(m, fiber) ==
  LET f == m.fibers[fiber]
      domParentFiber == domParentFiberOf(m.fibers, f.parent)
      domParent == m.fibers[domParentFiber].dom
      effect == IF f.effectTag = "PLACEMENT" /\ f.dom # None THEN "PLACEMENT"
                ELSE IF f.effectTag = "UPDATE" /\ f.dom # None THEN "UPDATE"
                ELSE IF f.effectTag = "DELETION" THEN "DELETION"
                ELSE "NONE"
      m1 == [m EXCEPT !.log = Append(@, [fiber |-> fiber, effect |-> effect,
                                         domParent |-> domParent])]
  IN IF f.parent = None \/ domParentFiber = None THEN [m EXCEPT !.thrown = TRUE]
     ELSE IF effect = "PLACEMENT"
       THEN IF ~isElementNode(m.nodes[domParent]) THEN [m1 EXCEPT !.thrown = TRUE]
            ELSE appendChild(m1, domParent, f.dom)
     ELSE IF effect = "UPDATE"
       THEN LET d == updateDom(m.nodes[f.dom],
                               IF f.alternate # None THEN m.fibers[f.alternate].props
                               ELSE EmptyProps,
                               f.props)
            IN [m1 EXCEPT !.nodes[f.dom] = d.node, !.calls = @ + d.calls]
     ELSE IF effect = "DELETION"
       THEN IF ~isElementNode(m.nodes[domParent]) THEN [m1 EXCEPT !.thrown = TRUE]
            ELSE commitDeletion(m1, fiber, domParent)
     ELSE m1

\* commitWork(fiber)
RECURSIVE commitWork(_, _)
commitWork(m, fiber) ==
  IF fiber = None \/ m.thrown THEN m
  ELSE commitWork(commitWork(commitEffect(m, fiber), m.fibers[fiber].child),
                  m.fibers[fiber].sibling)

\* deletions.forEach(commitWork), for the entries at positions i..last
RECURSIVE commitDeletions(_, _, _)
commitDeletions(m, i, last) ==
  IF i > last THEN m
  ELSE commitDeletions(commitWork(m, m.deletions[i]), i + 1, last)

\* commitRoot as it would be if the work-in-progress tree were walked before
\* the pending deletions
commitRootDeletingLast(m, root) ==
  LET walked == commitWork(m, IF root # None THEN m.fibers[root].child ELSE None)
  IN commitDeletions(walked, 1, Len(m.deletions))

\* commitRoot() up to and including commitWork(wipRoot?.child)
commitRoot(m, root) ==
  commitWork(commitDeletions(m, 1, Len(m.deletions)), IF root # None THEN m.fibers[root].child ELSE None)

\* ------------------------------------------------------------------ inputs
\* the elements handed to render(): two divs of host children, a div that
\* starts with a component returning null, the playground's <Counter />,
\* and the first div with another attribute and another text
RootElements ==
  << Element("div", <<<<"id", "a">>>>,
             <<Element("span", <<>>, <<createTextElement("a")>>),
               Element("p", <<>>, <<>>)>>),
     Element("div", <<<<"id", "b">>>>, <<Element("p", <<>>, <<>>)>>),
     Element("div", <<<<"id", "a">>>>,
             <<Element("Empty", <<>>, <<>>), Element("p", <<>>, <<>>)>>),
     Element("Counter", <<>>, <<>>),
     Element("div", <<<<"title", "t">>>>,
             <<Element("span", <<>>, <<createTextElement("b")>>),
               Element("p", <<>>, <<>>)>>) >>

\* ------------------------------------------------------------------- state
VARIABLES
  fibers,          \* the heap of fiber objects
  nodes,           \* the heap of DOM nodes; nodes[Container] is the mount node
  deletions,       \* let deletions
  nextUnitOfWork,  \* let nextUnitOfWork
  currentRoot,     \* let currentRoot
  wipRoot,         \* let wipRoot
  pc,              \* "idle": workLoop is registered with requestIdleCallback;
                   \* "loop": workLoop is running; "dead": workLoop threw
  shouldYield,     \* let shouldYield of the running workLoop
  visited,         \* the fibers performUnitOfWork was applied to since the
                   \* last render request, in order
  requests,        \* render requests so far: render() calls and setter calls
  invocations,     \* the workLoop invocations that started with a unit of
                   \* work pending since the last render request, up to
                   \* the commit of its tree (0 once it is committed)
  enqueued         \* the setter calls since the last commit, in order: the
                   \* fiber whose setter it was, the action, and whether
                   \* the call discarded a render in flight that had
                   \* already evaluated a component with a hook

vars == <<fibers, nodes, deletions, nextUnitOfWork,
          currentRoot, wipRoot, pc, shouldYield, visited, requests, invocations,
          enqueued>>

\* the module-level state the render and commit operators work on.
\* `let wipFiber` and `let hookIndex` are written by updateFunctionComponent
\* before useState reads them, so their value between two units of work is
\* never read and they live in this record only.
Runtime ==
  [fibers |-> fibers, nodes |-> nodes, deletions |-> deletions,
   wipFiber |-> None, hookIndex |-> 0, thrown |-> FALSE, calls |-> 0,
   log |-> <<>>]

\* the host tree: the nodes attached under the mount node, as they are
Attached == subtree(nodes, Container)
HostTree == [n \in Attached |-> nodes[n]]

Init ==
  /\ fibers = <<>>
  /\ nodes = <<ElementNode("root")>>
  /\ deletions = <<>>
  /\ nextUnitOfWork = None
  /\ currentRoot = None
  /\ wipRoot = None
  /\ pc = "idle"
  /\ shouldYield = FALSE
  /\ visited = <<>>
  /\ requests = 0
  /\ invocations = 0
  /\ enqueued = <<>>

\* A render request overwrites wipRoot and nextUnitOfWork, the only
\* references to the fibers of a work-in-progress tree in flight: that tree
\* and the DOM nodes created for it become unreachable, and the heaps drop
\* them (fibers and nodes are allocated in order, so they are the youngest).
\* After a failed commit the DOM may hold listeners of that tree: it stays.
liveFibers ==
  IF pc = "idle" /\ wipRoot # None THEN SubSeq(fibers, 1, wipRoot - 1) ELSE fibers

Max(S) == CHOOSE x \in S : \A y \in S : y <= x

liveNodes ==
  SubSeq(nodes, 1,
         Max({Container} \cup {liveFibers[f].dom : f \in 1..Len(liveFibers)}))

\* render(element, container)
Render(element) ==
  /\ pc # "loop"
  /\ requests < MaxRequests
  /\ fibers' = Append(liveFibers, Fiber(NoType, Props(<<>>, <<element>>), Container,
                                        None, currentRoot, "NONE"))
  /\ nodes' = liveNodes
  /\ wipRoot' = Len(liveFibers) + 1
  /\ deletions' = <<>>
  /\ nextUnitOfWork' = Len(liveFibers) + 1
  /\ visited' = <<>>
  /\ requests' = requests + 1
  /\ invocations' = 0
  /\ UNCHANGED <<currentRoot, pc, shouldYield, enqueued>>

\* setStateFibers as it would be if the setter replaced the queue by the
\* one action instead of pushing onto it
setStateFibersOverwriting(fs, handler, root) ==
  Append([fs EXCEPT ![handler.fiber].hooks[handler.hook].queue = <<handler.action>>],
         Fiber(NoType,
               IF root # None THEN fs[root].props ELSE EmptyProps,
               IF root # None THEN fs[root].dom ELSE None,
               None, root, "NONE"))

\* a render is in flight that has already evaluated a component with a
\* hook: a request made now discards a tree that holds hook states
renderEvaluatedHooks ==
  /\ wipRoot # None
  /\ \E i \in 1..Len(visited) : fibers[visited[i]].hooks # <<>>

\* the fibers after setState's hook.queue.push(action) and the creation of
\* the new root
setStateFibers(fs, handler, root) ==
  Append([fs EXCEPT ![handler.fiber].hooks[handler.hook].queue =
                       Append(@, handler.action)],
         Fiber(NoType,
               IF root # None THEN fs[root].props ELSE EmptyProps,
               IF root # None THEN fs[root].dom ELSE None,
               None, root, "NONE"))

\* a host event on an attached node runs a listener, which calls the setter
\* it closed over: setState(action)
SetState(node, listener) ==
  /\ pc # "loop"
  /\ requests < MaxRequests
  /\ node \in Attached
  /\ listener \in nodes[node].listeners
  /\ fibers' = setStateFibers(liveFibers, listener[2], currentRoot)
  /\ nodes' = liveNodes
  /\ wipRoot' = Len(liveFibers) + 1
  /\ nextUnitOfWork' = Len(liveFibers) + 1
  /\ deletions' = <<>>
  /\ visited' = <<>>
  /\ requests' = requests + 1
  /\ invocations' = 0
  /\ enqueued' = Append(enqueued, [fiber |-> listener[2].fiber,
                                   action |-> listener[2].action,
                                   discarded |-> renderEvaluatedHooks])
  /\ UNCHANGED <<currentRoot, pc, shouldYield>>

\* application code that kept the setter returned to a Counter in the
\* generation committed before the current one (in a timer or a promise
\* callback, say) calls it while the Counter is still mounted:
\* setState(action) of the hook of the current Counter fiber's alternate
StaleSetState(fiber, action) ==
  /\ pc # "loop"
  /\ requests < MaxRequests
  /\ currentRoot # None
  /\ fiber < currentRoot
  /\ fibers[fiber].type = "Counter"
  /\ fibers[fiber].hooks # <<>>
  /\ \E f \in currentRoot..Len(fibers) :
       (wipRoot = None \/ f < wipRoot) /\ fibers[f].alternate = fiber
  /\ fibers' = setStateFibers(liveFibers, Handler(fiber, 1, action), currentRoot)
  /\ nodes' = liveNodes
  /\ wipRoot' = Len(liveFibers) + 1
  /\ nextUnitOfWork' = Len(liveFibers) + 1
  /\ deletions' = <<>>
  /\ visited' = <<>>
  /\ requests' = requests + 1
  /\ invocations' = 0
  /\ enqueued' = Append(enqueued, [fiber |-> fiber,
                                   action |-> action,
                                   discarded |-> renderEvaluatedHooks])
  /\ UNCHANGED <<currentRoot, pc, shouldYield>>

\* WorkLoopStart as it would be if workLoop asked the deadline before the
\* first unit of work (`let shouldYield = deadline.timeRemaining() < 1`)
WorkLoopStartAskingDeadline ==
  /\ pc = "idle"
  /\ pc' = "loop"
  /\ shouldYield' \in BOOLEAN
  /\ invocations' = IF nextUnitOfWork # None THEN invocations + 1 ELSE invocations
  /\ UNCHANGED <<fibers, nodes, deletions, nextUnitOfWork,
                 currentRoot, wipRoot, visited, requests, enqueued>>

\* the browser runs the registered callback: workLoop(deadline) starts
WorkLoopStart ==
  /\ pc = "idle"
  /\ pc' = "loop"
  /\ shouldYield' = FALSE
  /\ invocations' = IF nextUnitOfWork # None THEN invocations + 1 ELSE invocations
  /\ UNCHANGED <<fibers, nodes, deletions, nextUnitOfWork,
                 currentRoot, wipRoot, visited, requests, enqueued>>

\* one iteration of workLoop's while loop; deadline.timeRemaining() < 1 is
\* whatever the browser says
PerformUnitOfWork ==
  /\ pc = "loop"
  /\ nextUnitOfWork # None /\ ~shouldYield
  /\ LET r == performUnitOfWork(Runtime, nextUnitOfWork)
     IN /\ fibers' = r.m.fibers
        /\ nodes' = r.m.nodes
        /\ deletions' = r.m.deletions
        /\ nextUnitOfWork' = r.next
        /\ visited' = Append(visited, nextUnitOfWork)
        /\ IF r.m.thrown
             THEN pc' = "dead" /\ shouldYield' = shouldYield
             ELSE pc' = pc /\ shouldYield' \in BOOLEAN
  /\ UNCHANGED <<currentRoot, wipRoot, requests, invocations, enqueued>>

\* the while loop of workLoop has ended
LoopEnded == pc = "loop" /\ ~(nextUnitOfWork # None /\ ~shouldYield)

\* CommitRoot as it would be if commitRoot did not clear wipRoot
CommitRootKeepingRoot ==
  /\ LoopEnded
  /\ nextUnitOfWork = None /\ wipRoot # None
  /\ LET m == commitRoot(Runtime, wipRoot)
     IN /\ nodes' = m.nodes
        /\ IF m.thrown
             THEN pc' = "dead" /\ UNCHANGED <<currentRoot, wipRoot>>
             ELSE pc' = "idle" /\ currentRoot' = wipRoot /\ wipRoot' = wipRoot
  /\ invocations' = (IF pc' = "idle" THEN 0 ELSE invocations)
  /\ enqueued' = (IF pc' = "idle" THEN <<>> ELSE enqueued)
  /\ UNCHANGED <<fibers, deletions, nextUnitOfWork,
                 shouldYield, visited, requests>>

\* `if (!nextUnitOfWork && wipRoot) commitRoot()` when it commits, followed
\* by requestIdleCallback(workLoop); an Error thrown by the commit leaves
\* workLoop unregistered
CommitRoot ==
  /\ LoopEnded
  /\ nextUnitOfWork = None /\ wipRoot # None
  /\ LET m == commitRoot(Runtime, wipRoot)
     IN /\ nodes' = m.nodes
        /\ IF m.thrown
             THEN pc' = "dead" /\ UNCHANGED <<currentRoot, wipRoot>>
             ELSE pc' = "idle" /\ currentRoot' = wipRoot /\ wipRoot' = None
  /\ invocations' = (IF pc' = "idle" THEN 0 ELSE invocations)
  /\ enqueued' = (IF pc' = "idle" THEN <<>> ELSE enqueued)
  /\ UNCHANGED <<fibers, deletions, nextUnitOfWork,
                 shouldYield, visited, requests>>

\* workLoop ends without a commit: requestIdleCallback(workLoop)
WorkLoopYield ==
  /\ LoopEnded
  /\ ~(nextUnitOfWork = None /\ wipRoot # None)
  /\ pc' = "idle"
  /\ UNCHANGED <<fibers, nodes, deletions, nextUnitOfWork,
                 currentRoot, wipRoot, shouldYield, visited, requests, invocations,
                 enqueued>>

Next ==
  \/ \E i \in 1..Len(RootElements) : Render(RootElements[i])
  \/ \E node \in 1..Len(nodes) : \E listener \in nodes[node].listeners :
       SetState(node, listener)
  \/ \E fiber \in 1..Len(fibers) : \E action \in {IncAction} :
       StaleSetState(fiber, action)
  \/ WorkLoopStart
  \/ PerformUnitOfWork
  \/ CommitRoot
  \/ WorkLoopYield

Spec == Init /\ [][Next]_vars

\* ------------------------------------------------------------ tree helpers
\* the fibers from `fiber` along the sibling links
RECURSIVE siblingsFrom(_, _)
siblingsFrom(fs, fiber) ==
  IF fiber = None THEN <<>> ELSE <<fiber>> \o siblingsFrom(fs, fs[fiber].sibling)

\* the child list of a fiber
childrenOf(fs, parent) == siblingsFrom(fs, fs[parent].child)

\* depth-first preorder of the fibers below and after `fiber`: the fiber,
\* its subtree, then its next siblings with theirs
RECURSIVE preorder(_, _)
preorder(fs, fiber) ==
  IF fiber = None THEN <<>>
  ELSE <<fiber>> \o preorder(fs, fs[fiber].child) \o preorder(fs, fs[fiber].sibling)

Range(seq) == {seq[i] : i \in 1..Len(seq)}

\* the fibers of the tree under a root
treeOf(fs, root) == Range(preorder(fs, root))

RenderStep == \E i \in 1..Len(RootElements) : Render(RootElements[i])

SetStateStep ==
  \/ \E node \in 1..Len(nodes) : \E listener \in nodes[node].listeners :
       SetState(node, listener)
  \/ \E fiber \in 1..Len(fibers) : StaleSetState(fiber, IncAction)

\* the render of wipRoot is complete: workLoop is about to commit it
RenderComplete == wipRoot # None /\ nextUnitOfWork = None

\* ------------------------------------------------------------------ claims

\* C1: the host tree (the nodes attached under the mount node with their
\* attributes, text values, listeners and children) changes only in a
\* commitRoot step: render(), a setter call, a performUnitOfWork step and
\* the start and end of a workLoop invocation all leave it as it is.
HostTreeChangesOnlyInCommit ==
  [][/\ (RenderStep \/ SetStateStep \/ PerformUnitOfWork) => HostTree' = HostTree
     /\ HostTree' # HostTree => CommitRoot]_vars

\* workLoop has yielded in the middle of a re-render that has already
\* created a host node, which is attached nowhere
YieldedMidRender ==
  /\ pc = "idle" /\ currentRoot # None
  /\ wipRoot # None /\ nextUnitOfWork # None
  /\ \E f \in treeOf(fibers, wipRoot) :
       /\ fibers[f].effectTag = "PLACEMENT"
       /\ fibers[f].dom # None
       /\ fibers[f].dom \notin Attached

\* C2: performUnitOfWork is applied to the fibers of the work-in-progress
\* tree in depth-first preorder, each exactly once: while the render is in
\* flight the fibers visited so far followed by the next unit of work are
\* the first fibers of the tree's preorder, and when no unit of work is
\* left the fibers visited are exactly the preorder of the whole tree,
\* wherever workLoop yielded in between.
VisitsInPreorder ==
  /\ RenderComplete => visited = preorder(fibers, wipRoot)
  /\ wipRoot # None /\ nextUnitOfWork # None =>
       /\ Len(visited) < Len(preorder(fibers, wipRoot))
       /\ Append(visited, nextUnitOfWork)
            = SubSeq(preorder(fibers, wipRoot), 1, Len(visited) + 1)

\* a re-render of a tree of at least four fibers is complete
TreeFullyVisited ==
  /\ RenderComplete /\ currentRoot # None
  /\ Len(visited) >= 4
  /\ \E f \in Range(visited) : fibers[f].sibling # None

\* the `elements` performUnitOfWork(fiber) hands to reconcileChildren: what
\* the component returns, or the children of a host fiber's props
elementsOf(m, fiber) ==
  IF isFunctionComponent(m.fibers[fiber].type)
    THEN evaluateFunctionComponent(
           [m EXCEPT !.wipFiber = fiber, !.hookIndex = 0,
                     !.fibers[fiber].hooks = <<>>], fiber).children
    ELSE m.fibers[fiber].props.children

\* the children of the previous fiber of `fiber`
oldChildrenOf(fs, fiber) ==
  IF fs[fiber].alternate = None THEN <<>> ELSE childrenOf(fs, fs[fiber].alternate)

\* C3: when performUnitOfWork reconciles a fiber and the declarative child
\* at position i has a type different from the previous fiber at position
\* i, the fiber's child at position i is a newly created fiber of the
\* child's type tagged PLACEMENT, without dom and without alternate, the
\* old fiber is tagged DELETION and occurs exactly once in deletions, and
\* no new fiber has the old one as its alternate (no UPDATE for it).
TypeChangeReplaces ==
  [][PerformUnitOfWork =>
       LET parent == nextUnitOfWork
           elements == elementsOf(Runtime, parent)
           old == oldChildrenOf(fibers, parent)
           new == childrenOf(fibers', parent)
       IN \A i \in 1..Len(elements) :
            (i <= Len(old) /\ fibers[old[i]].type # elements[i].type) =>
              /\ i <= Len(new)
              /\ new[i] > Len(fibers)
              /\ fibers'[new[i]].type = elements[i].type
              /\ fibers'[new[i]].effectTag = "PLACEMENT"
              /\ fibers'[new[i]].dom = None
              /\ fibers'[new[i]].alternate = None
              /\ fibers'[old[i]].effectTag = "DELETION"
              /\ Cardinality({k \in 1..Len(deletions') : deletions'[k] = old[i]}) = 1
              /\ \A g \in (Len(fibers) + 1)..Len(fibers') :
                   fibers'[g].alternate # old[i]]_vars

\* a reconciled fiber has at some position a child whose type differs from
\* that of the previous fiber at the position, which is pending deletion
TypeChangedAtPosition ==
  /\ wipRoot # None
  /\ \E w \in treeOf(fibers, wipRoot) :
       \E i \in 1..Len(childrenOf(fibers, w)) :
         /\ i <= Len(oldChildrenOf(fibers, w))
         /\ fibers[childrenOf(fibers, w)[i]].type
              # fibers[oldChildrenOf(fibers, w)[i]].type
         /\ oldChildrenOf(fibers, w)[i] \in Range(deletions)

\* C4: a fiber created as a same-type match (a fiber with an alternate) has
\* the very dom of its alternate, at every moment; and performUnitOfWork
\* creates a DOM node only for a fiber without alternate, so along a chain
\* of same-type matches the node is created once, whatever the props.
HostHandleReused ==
  [][/\ \A f \in 1..Len(fibers') :
          fibers'[f].alternate # None =>
            fibers'[f].dom = fibers'[fibers'[f].alternate].dom
     /\ (PerformUnitOfWork /\ Len(nodes') # Len(nodes)) =>
          /\ fibers[nextUnitOfWork].alternate = None
          /\ fibers[nextUnitOfWork].dom = None
          /\ Len(nodes') = Len(nodes) + 1
          /\ fibers'[nextUnitOfWork].dom = Len(nodes')]_vars

\* performUnitOfWork has been applied to a same-type match of a host fiber
\* whose props differ from the previous ones
MatchedWithNewProps ==
  \E f \in Range(visited) :
    /\ fibers[f].effectTag = "UPDATE"
    /\ fibers[f].dom # None
    /\ fibers[f].dom = fibers[fibers[f].alternate].dom
    /\ fibers[f].props.attrs # fibers[fibers[f].alternate].props.attrs

\* the children of `fiber` have, position by position, the types and props
\* of the children of its alternate
SameDeclaration(fiber) ==
  LET new == childrenOf(fibers, fiber)
      old == oldChildrenOf(fibers, fiber)
  IN /\ Len(new) = Len(old)
     /\ \A i \in 1..Len(new) :
          /\ fibers[new[i]].type = fibers[old[i]].type
          /\ fibers[new[i]].props = fibers[old[i]].props

\* a committed tree has been re-rendered completely and every fiber got
\* the declarative children of the previous generation
UnchangedRerender ==
  /\ RenderComplete /\ currentRoot # None /\ pc # "dead"
  /\ \A w \in treeOf(fibers, wipRoot) :
       fibers[w].alternate # None => SameDeclaration(w)

\* C5 as stated: after an unchanged re-render every fiber of the
\* work-in-progress tree is tagged UPDATE, deletions is empty and the commit
\* makes no DOM mutation.
UnchangedRerenderAllUpdate ==
  UnchangedRerender =>
    /\ \A w \in treeOf(fibers, wipRoot) : fibers[w].effectTag = "UPDATE"
    /\ deletions = <<>>
    /\ commitRoot(Runtime, wipRoot).calls = 0

\* C5, amended: after an unchanged re-render every fiber of the
\* work-in-progress tree other than its root, which has no effect tag, is
\* tagged UPDATE, deletions is empty, and the commit makes no DOM mutation
\* (no attribute set or removed, no listener added or removed, no nodeValue
\* written, no node appended or removed) and leaves every node as it is.
UnchangedRerenderIsNoop ==
  UnchangedRerender =>
    /\ \A w \in treeOf(fibers, wipRoot) \ {wipRoot} : fibers[w].effectTag = "UPDATE"
    /\ fibers[wipRoot].effectTag = "NONE"
    /\ deletions = <<>>
    /\ commitRoot(Runtime, wipRoot).calls = 0
    /\ ~commitRoot(Runtime, wipRoot).thrown
    /\ commitRoot(Runtime, wipRoot).nodes = nodes

\* an unchanged re-render of a tree with host attributes is complete
UnchangedRerenderDone ==
  /\ UnchangedRerender
  /\ Len(preorder(fibers, wipRoot)) >= 4
  /\ \E w \in treeOf(fibers, wipRoot) :
       fibers[w].dom # None /\ fibers[w].props.attrs # <<>>

\* the position of the last action of a queue that is a plain value, 0 when
\* every action is a function
lastPlainValue(queue) ==
  IF \E i \in 1..Len(queue) : ~queue[i].fn
    THEN Max({i \in 1..Len(queue) : ~queue[i].fn}) ELSE 0

\* what a queue of increments and plain values makes of a state when it is
\* applied first in, first out: the last plain value (the state when there
\* is none) plus one for every increment queued after it
inOrderResult(state, queue) ==
  (IF lastPlainValue(queue) = 0 THEN state ELSE queue[lastPlainValue(queue)].value)
    + (Len(queue) - lastPlainValue(queue))

\* C6: when a Counter fiber whose alternate has a hook is evaluated, its
\* one hook gets the alternate's state with all actions queued on the
\* alternate's hook applied in the order they were enqueued, a function
\* mapping the state and a plain value replacing it, and an empty queue;
\* two increments make the state two larger.
QueuedActionsAppliedInOrder ==
  [][(/\ PerformUnitOfWork
      /\ fibers[nextUnitOfWork].type = "Counter"
      /\ fibers[nextUnitOfWork].alternate # None
      /\ fibers[fibers[nextUnitOfWork].alternate].hooks # <<>>) =>
       LET old == fibers[fibers[nextUnitOfWork].alternate].hooks[1]
           new == fibers'[nextUnitOfWork].hooks
       IN /\ Len(new) = 1
          /\ new[1].queue = <<>>
          /\ new[1].state = inOrderResult(old.state, old.queue)
          /\ old.queue = <<IncAction, IncAction>> => new[1].state = old.state + 2
          /\ old.queue = <<IncAction, ResetAction>> => new[1].state = ResetAction.value
          /\ old.queue = <<ResetAction, IncAction>> => new[1].state = ResetAction.value + 1
          /\ fibers'[fibers[nextUnitOfWork].alternate].hooks[1] = old]_vars

\* a Counter mounted with the initial count was evaluated again after its
\* setter was called twice with the increment
TwoIncrementsApplied ==
  \E f \in 1..Len(fibers) :
    /\ fibers[f].type = "Counter"
    /\ fibers[f].alternate # None
    /\ fibers[fibers[f].alternate].hooks
         = <<[state |-> InitialCount, queue |-> <<IncAction, IncAction>>]>>
    /\ fibers[f].hooks = <<[state |-> InitialCount + 2, queue |-> <<>>]>>

\* C7: the evaluation of a Counter fiber gives its hook the initial value
\* when the fiber has no alternate or the alternate has no hook, as for
\* every fiber tagged PLACEMENT; otherwise it gives it the alternate's state
\* with the alternate's queued actions applied, which is the alternate's
\* state itself when nothing is queued; and a same-type match always finds
\* the hook of its alternate, generation after generation.
HookStateCarriedOver ==
  [][(PerformUnitOfWork /\ fibers[nextUnitOfWork].type = "Counter") =>
       LET fiber == nextUnitOfWork
           alt == fibers[fiber].alternate
           hasOld == alt # None /\ Len(fibers[alt].hooks) >= 1
           state == fibers'[fiber].hooks[1].state
       IN /\ ~hasOld => state = InitialCount
          /\ fibers[fiber].effectTag = "PLACEMENT" => ~hasOld
          /\ fibers[fiber].effectTag = "UPDATE" => hasOld
          /\ hasOld => state = inOrderResult(fibers[alt].hooks[1].state,
                                             fibers[alt].hooks[1].queue)
          /\ (hasOld /\ fibers[alt].hooks[1].queue = <<>>) =>
               state = fibers[alt].hooks[1].state]_vars

\* a Counter has been placed and evaluated after an earlier Counter had
\* reached another count
CounterPlacedAgain ==
  \E f, g \in 1..Len(fibers) :
    /\ g < f
    /\ fibers[g].type = "Counter" /\ fibers[f].type = "Counter"
    /\ fibers[g].hooks # <<>> /\ fibers[f].hooks # <<>>
    /\ fibers[g].hooks[1].state # InitialCount
    /\ fibers[f].effectTag = "PLACEMENT"
    /\ fibers[f].hooks[1].state = InitialCount

\* the DOM node a pending deletion of `fiber` is to remove: its dom, else
\* that of the first descendant along the child links that has one
RECURSIVE hostOf(_, _)
hostOf(fs, fiber) ==
  IF fiber = None THEN None
  ELSE IF fs[fiber].dom # None THEN fs[fiber].dom
  ELSE hostOf(fs, fs[fiber].child)

\* the nodes the pending deletions are to detach, with what is below them
pendingRemovals ==
  UNION {subtree(nodes, hostOf(fibers, deletions[k])) :
           k \in {j \in 1..Len(deletions) : hostOf(fibers, deletions[j]) # None}}

\* C8 as stated: when a commit has among the pending deletions a component
\* fiber whose child is a host fiber, that child's DOM node is not attached
\* after the commit, and no node other than those of the pending deletions
\* has been removed from the host tree.
ComponentDeletionRemovesItsHost ==
  [][CommitRoot =>
       /\ \A k \in 1..Len(deletions) :
            (/\ isFunctionComponent(fibers[deletions[k]].type)
             /\ fibers[deletions[k]].child # None
             /\ fibers[fibers[deletions[k]].child].dom # None) =>
              fibers[fibers[deletions[k]].child].dom \notin Attached'
       /\ (Attached \ Attached') \subseteq pendingRemovals]_vars

\* workLoop has left its loop with a complete render: it commits next
AboutToCommit == LoopEnded /\ RenderComplete

\* C9 as stated: when commitRoot comes to the pending deletion of a
\* component fiber that has neither dom nor child, committing that deletion
\* (commitWork applied to it) throws nothing and detaches no node from the
\* host tree.
NullComponentDeletionIsNoop ==
  AboutToCommit =>
    \A k \in 1..Len(deletions) :
      LET before == commitDeletions(Runtime, 1, k - 1)
          after == commitWork(before, deletions[k])
      IN (/\ isFunctionComponent(fibers[deletions[k]].type)
          /\ fibers[deletions[k]].dom = None
          /\ fibers[deletions[k]].child = None
          /\ ~before.thrown) =>
           /\ ~after.thrown
           /\ subtree(before.nodes, Container) \subseteq subtree(after.nodes, Container)

\* C10 as stated: a render request sets wipRoot to a new root fiber whose
\* alternate is currentRoot, nextUnitOfWork to that root, and deletions to
\* the empty list; a commit commits a tree built entirely since the last
\* request; and nothing computed for a replaced tree reaches the host tree:
\* a commit detaches only nodes of the pending deletions of the tree it
\* commits and attaches only nodes of that tree's fibers.
ReplacedRenderLeavesNoTrace ==
  [][/\ (RenderStep \/ SetStateStep) =>
          /\ wipRoot' = Len(fibers')
          /\ nextUnitOfWork' = wipRoot'
          /\ deletions' = <<>>
          /\ fibers'[wipRoot'].type = NoType
          /\ fibers'[wipRoot'].alternate = currentRoot
          /\ fibers'[wipRoot'].child = None
          /\ \A f \in 1..Len(fibers') :
               fibers'[f].alternate # wipRoot' /\ fibers'[f].parent # wipRoot'
     /\ CommitRoot =>
          /\ Range(visited) = treeOf(fibers, wipRoot)
          /\ (Attached \ Attached') \subseteq pendingRemovals
          /\ (Attached' \ Attached) \subseteq
               UNION {subtree(nodes', fibers[f].dom) :
                        f \in {g \in treeOf(fibers, wipRoot) : fibers[g].dom # None}}]_vars

\* the attributes updateDom is to leave on an element node for `props`:
\* the keys other than children and the on-prefixed ones, with their values
attributesOf(props) ==
  {props.attrs[i] : i \in {j \in 1..Len(props.attrs) : isProperty(props.attrs[j][1])}}

\* the listeners updateDom is to leave on an element node for `props`
listenersOf(props) ==
  {<<eventTypeOf(props.attrs[i][1]), props.attrs[i][2]>> :
     i \in {j \in 1..Len(props.attrs) : isEvent(props.attrs[j][1])}}

\* C11: after a commit, the DOM node of every fiber of the committed tree
\* tagged UPDATE is the node of its alternate (not a new one), and it has
\* been patched to the fiber's props: an element node's attributes are
\* exactly the props other than children and on-prefixed keys, its
\* listeners exactly the on-prefixed handlers of the props (the previous
\* generation's handlers that are absent or changed are gone), and a text
\* node holds the nodeValue of the props; the patch itself neither attaches
\* nor detaches anything (the node keeps its children).
UpdatePatchesHostNode ==
  [][(CommitRoot /\ pc' # "dead") =>
       \A f \in treeOf(fibers, wipRoot) :
         (fibers[f].effectTag = "UPDATE" /\ fibers[f].dom # None) =>
           LET dom == fibers[f].dom
               node == nodes'[dom]
           IN /\ dom = fibers[fibers[f].alternate].dom
              /\ IF fibers[f].type = "TEXT_ELEMENT"
                   THEN /\ isTextNode(node)
                        /\ node.nodeValue = getProp(fibers[f].props, "nodeValue")
                   ELSE /\ isElementNode(node)
                        /\ node.tag = fibers[f].type
                        /\ Range(node.attrs) = attributesOf(fibers[f].props)
                        /\ Len(node.attrs) = Cardinality(attributesOf(fibers[f].props))
                        /\ node.listeners = listenersOf(fibers[f].props)
              /\ updateDom(nodes[dom], fibers[fibers[f].alternate].props,
                           fibers[f].props).node.children = nodes[dom].children]_vars

\* a commit has patched a text node from "a" to "b" and an element node
\* from the attribute id to the attribute title, all fibers below the root
\* being tagged UPDATE
TextAndAttributePatched ==
  /\ pc = "idle" /\ wipRoot = None /\ currentRoot # None
  /\ \A f \in treeOf(fibers, currentRoot) \ {currentRoot} : fibers[f].effectTag = "UPDATE"
  /\ \E f \in treeOf(fibers, currentRoot) :
       /\ fibers[f].type = "TEXT_ELEMENT"
       /\ getProp(fibers[fibers[f].alternate].props, "nodeValue") = "a"
       /\ nodes[fibers[f].dom].nodeValue = "b"
       /\ fibers[f].dom \in Attached
  /\ \E f \in treeOf(fibers, currentRoot) :
       /\ fibers[f].type = "div"
       /\ hasKey(fibers[fibers[f].alternate].props, "id")
       /\ nodes[fibers[f].dom].attrs = <<<<"title", "t">>>>

\* C12 as stated: every workLoop invocation ends with workLoop registered
\* again with requestIdleCallback, whatever its outcome: it yielded in the
\* middle of a tree, it committed, it had nothing to do, or a unit of work
\* or the commit threw.
WorkLoopAlwaysReregisters ==
  [][(pc = "loop" /\ pc' # "loop") => pc' = "idle"]_vars

\* C13: commitRoot runs only when there is a work-in-progress root and no
\* unit of work is left, performUnitOfWork having been applied to the whole
\* tree; a commit that completes clears wipRoot and makes the committed
\* tree currentRoot; and while there is no work-in-progress root nothing
\* but a render request changes the DOM, the roots or wipRoot, so that a
\* render request is committed at most once (after a commit that threw,
\* workLoop never runs again and the host tree stays as it is).
CommitsOncePerRequest ==
  [][/\ CommitRoot =>
          /\ wipRoot # None /\ nextUnitOfWork = None
          /\ visited = preorder(fibers, wipRoot)
          /\ pc' # "dead" =>
               (wipRoot' = None /\ currentRoot' = wipRoot /\ pc' = "idle")
     /\ (wipRoot = None /\ ~(RenderStep \/ SetStateStep)) =>
          (nodes' = nodes /\ wipRoot' = None /\ currentRoot' = currentRoot)
     /\ pc = "dead" => (pc' = "dead" /\ HostTree' = HostTree)]_vars

\* workLoop runs again after the commit of a re-render, with nothing to do
InvokedAfterCommit ==
  /\ pc = "loop" /\ LoopEnded
  /\ wipRoot = None /\ nextUnitOfWork = None
  /\ currentRoot # None /\ fibers[currentRoot].alternate # None

\* the fibers of a commit log, in order
loggedFibers(log) == [i \in 1..Len(log) |-> log[i].fiber]

\* C14: in the commit about to run, commitWork handles all pending
\* deletions before any fiber of the work-in-progress tree (and no fiber of
\* that tree while the deletions are handled); it then handles the fibers
\* of the work-in-progress tree in depth-first preorder, a fiber before its
\* children and its subtree before its next sibling (all of them when
\* nothing throws); every mutation has as its target the dom of the nearest
\* ancestor fiber that has one, and after a commit that completes the node
\* of each placed fiber is a child of that target.
DeletionsThenPreorderWalk ==
  AboutToCommit =>
    LET deleted == commitDeletions(Runtime, 1, Len(deletions))
        done == commitRoot(Runtime, wipRoot)
        walk == SubSeq(done.log, Len(deleted.log) + 1, Len(done.log))
        order == preorder(fibers, fibers[wipRoot].child)
    IN /\ Len(deleted.log) <= Len(done.log)
       /\ SubSeq(done.log, 1, Len(deleted.log)) = deleted.log
       /\ \A i \in 1..Len(deleted.log) :
            deleted.log[i].fiber \notin treeOf(fibers, wipRoot)
       /\ ~deleted.thrown =>
            \A k \in 1..Len(deletions) :
              \E i \in 1..Len(deleted.log) :
                deleted.log[i].fiber = deletions[k] /\ deleted.log[i].effect = "DELETION"
       /\ deleted.thrown => walk = <<>>
       /\ Len(walk) <= Len(order)
       /\ loggedFibers(walk) = SubSeq(order, 1, Len(walk))
       /\ ~done.thrown => Len(walk) = Len(order)
       /\ \A i \in 1..Len(done.log) :
            done.log[i].domParent
              = fibers[domParentFiberOf(fibers, fibers[done.log[i].fiber].parent)].dom
       /\ ~done.thrown =>
            \A i \in 1..Len(walk) :
              walk[i].effect = "PLACEMENT" =>
                parentNode(done.nodes, fibers[walk[i].fiber].dom) = walk[i].domParent

\* a commit that completes is about to run with a pending deletion and a
\* work-in-progress tree of an updated fiber with a placed child that has
\* a child and a sibling
CommitWithDeletionAndPlacement ==
  /\ AboutToCommit
  /\ deletions # <<>>
  /\ ~commitRoot(Runtime, wipRoot).thrown
  /\ \E f \in treeOf(fibers, wipRoot) :
       /\ fibers[f].effectTag = "PLACEMENT" /\ fibers[f].dom # None
       /\ fibers[f].child # None /\ fibers[f].sibling # None
       /\ fibers[fibers[f].parent].effectTag = "UPDATE"

\* how often commitWork handled `fiber` in a commit log
timesHandled(log, fiber) == Cardinality({i \in 1..Len(log) : log[i].fiber = fiber})

\* C15 as stated: in the commit about to run commitWork handles every fiber
\* of the work-in-progress tree and every pending deletion exactly once,
\* handles no other fiber (none of the previous generation that is not a
\* pending deletion), and detaches the node of each pending deletion once,
\* so that no removal fails.
EveryTagConsumedOnce ==
  AboutToCommit =>
    LET done == commitRoot(Runtime, wipRoot)
        due == Range(deletions) \cup treeOf(fibers, fibers[wipRoot].child)
    IN /\ ~done.thrown
       /\ \A f \in due : timesHandled(done.log, f) = 1
       /\ \A i \in 1..Len(done.log) : done.log[i].fiber \in due

\* the previous children, from position i on, that have no declarative
\* child of their type at their position, in order
RECURSIVE unmatchedFrom(_, _, _, _)
unmatchedFrom(fs, old, elements, i) ==
  IF i > Len(old) THEN <<>>
  ELSE (IF i <= Len(elements) /\ fs[old[i]].type = elements[i].type
          THEN <<>> ELSE <<old[i]>>)
       \o unmatchedFrom(fs, old, elements, i + 1)

\* C16: when performUnitOfWork reconciles a fiber against its declarative
\* children, whatever the lengths of the previous child list and of the
\* declarative children, it creates exactly one fiber per declarative child
\* and no other; the fiber's child list (its child, then the sibling links)
\* holds these new fibers in the order of the declarative children, each
\* with the type and props of its declarative child and the fiber as its
\* parent (no child when there is no declarative child); and deletions grows
\* by exactly the previous children without a declarative child of their
\* type at their position, each once, in order, tagged DELETION, while the
\* matched previous children keep their tag.
ReconcileBuildsChildList ==
  [][(PerformUnitOfWork /\ pc' # "dead") =>
       LET parent == nextUnitOfWork
           elements == elementsOf(Runtime, parent)
           old == oldChildrenOf(fibers, parent)
           new == childrenOf(fibers', parent)
           gone == unmatchedFrom(fibers, old, elements, 1)
       IN /\ Len(fibers') = Len(fibers) + Len(elements)
          /\ Len(new) = Len(elements)
          /\ fibers'[parent].child = (IF elements = <<>> THEN None ELSE new[1])
          /\ \A i \in 1..Len(new) :
               /\ new[i] = Len(fibers) + i
               /\ fibers'[new[i]].type = elements[i].type
               /\ fibers'[new[i]].props = elements[i].props
               /\ fibers'[new[i]].parent = parent
               /\ fibers'[new[i]].child = None
          /\ deletions' = deletions \o gone
          /\ \A k \in 1..Len(gone) :
               /\ fibers'[gone[k]].effectTag = "DELETION"
               /\ gone[k] \notin Range(deletions)
          /\ \A i \in 1..Len(old) :
               old[i] \notin Range(gone) =>
                 fibers'[old[i]].effectTag = fibers[old[i]].effectTag]_vars

\* fibers have been reconciled against more declarative children than they
\* had children before, and against fewer, with children pending deletion
ReconciledLongerAndShorter ==
  /\ deletions # <<>>
  /\ \E w \in 1..Len(fibers) :
       /\ fibers[w].alternate # None
       /\ Len(oldChildrenOf(fibers, w)) > 0
       /\ Len(childrenOf(fibers, w)) > Len(oldChildrenOf(fibers, w))
  /\ \E w \in 1..Len(fibers) :
       /\ fibers[w].alternate # None
       /\ w \in Range(visited)
       /\ Len(childrenOf(fibers, w)) > 0
       /\ Len(childrenOf(fibers, w)) < Len(oldChildrenOf(fibers, w))

\* C17: a workLoop invocation starts at the very nextUnitOfWork the previous
\* one left (neither the end of an invocation nor the start of the next
\* changes it) and with shouldYield false, so that, when a unit of work is
\* pending, the first thing it does is performUnitOfWork on that fiber,
\* whatever the deadline says; hence the invocations that started with a
\* unit pending since the last render request never outnumber the fibers
\* processed since then (by more than the invocation that is running), and
\* the tree of N fibers is committed after at most N of them.
EveryInvocationProgresses ==
  [][/\ WorkLoopStart => (nextUnitOfWork' = nextUnitOfWork /\ ~shouldYield')
     /\ WorkLoopYield => nextUnitOfWork' = nextUnitOfWork
     /\ (pc = "loop" /\ nextUnitOfWork # None /\ ~shouldYield) =>
          (PerformUnitOfWork /\ visited' = Append(visited, nextUnitOfWork))
     /\ (pc' = "idle" /\ wipRoot' # None) => invocations' <= Len(visited')
     /\ pc' = "loop" => invocations' <= Len(visited') + 1
     /\ CommitRoot =>
          /\ invocations >= 1
          /\ invocations <= Len(preorder(fibers, wipRoot))]_vars

\* a re-render of a tree of at least four fibers is about to be committed
\* after workLoop yielded after every single fiber
YieldedAfterEveryFiber ==
  /\ AboutToCommit /\ currentRoot # None
  /\ Len(preorder(fibers, wipRoot)) >= 4
  /\ invocations = Len(preorder(fibers, wipRoot))

\* the fibers a fiber refers to: parent, sibling, child and alternate
linksOf(fs, fiber) ==
  {fs[fiber].parent, fs[fiber].sibling, fs[fiber].child, fs[fiber].alternate} \ {None}

\* the fibers that can be reached from the fibers of S along the links
RECURSIVE reachableFrom(_, _)
reachableFrom(fs, S) ==
  LET T == S \cup UNION {linksOf(fs, f) : f \in S}
  IN IF T = S THEN S ELSE reachableFrom(fs, T)

\* the root of the tree a fiber belongs to, which identifies its generation
RECURSIVE rootOf(_, _)
rootOf(fs, fiber) ==
  IF fs[fiber].parent = None THEN fiber ELSE rootOf(fs, fs[fiber].parent)

\* the generations retained: those of the fibers reachable from currentRoot
\* and wipRoot
retainedGenerations ==
  {rootOf(fibers, f) : f \in reachableFrom(fibers, {currentRoot, wipRoot} \ {None})}

\* C18 as stated: at any time the fibers reachable from currentRoot and
\* wipRoot through the child, sibling, parent and alternate links belong to
\* at most two generations, never to a third, and these are the current
\* generation and the work-in-progress generation: when there is only one
\* of the two roots, every reachable fiber belongs to its tree.
AtMostTwoGenerations ==
  /\ Cardinality(retainedGenerations) <= 2
  /\ (wipRoot = None \/ currentRoot = None) =>
       retainedGenerations \subseteq ({currentRoot, wipRoot} \ {None})

\* the types of a sequence of fibers
typesOf(fs, children) == [i \in 1..Len(children) |-> fs[children[i]].type]

\* `fiber` is a div of the work-in-progress tree that has been reconciled
\* against the single declarative child p, its previous fiber being a
\* mounted div of the current tree whose children are a span and a p
SpanAndPBecomeP(fiber) ==
  /\ wipRoot # None /\ currentRoot # None
  /\ fiber \in treeOf(fibers, wipRoot) /\ fiber \in Range(visited)
  /\ fibers[fiber].type = "div"
  /\ fibers[fiber].alternate \in treeOf(fibers, currentRoot)
  /\ fibers[fibers[fiber].alternate].alternate = None
  /\ typesOf(fibers, oldChildrenOf(fibers, fiber)) = <<"span", "p">>
  /\ Len(fibers[fiber].props.children) = 1
  /\ fibers[fiber].props.children[1].type = "p"

\* C19 as stated: re-rendering a mounted div of a span and a p with the
\* single child p leaves the old span fiber pending deletion and gives the
\* div a child p tagged UPDATE.
SpanDeletedAndPUpdated ==
  \A w \in 1..Len(fibers) :
    SpanAndPBecomeP(w) =>
      /\ oldChildrenOf(fibers, w)[1] \in Range(deletions)
      /\ fibers[oldChildrenOf(fibers, w)[1]].effectTag = "DELETION"
      /\ Len(childrenOf(fibers, w)) = 1
      /\ fibers[childrenOf(fibers, w)[1]].type = "p"
      /\ fibers[childrenOf(fibers, w)[1]].effectTag = "UPDATE"

\* C19, amended: re-rendering a mounted div of a span and a p with the
\* single child p compares by position: the p at position 0 meets the old
\* span, so the div gets one child p tagged PLACEMENT, a new fiber without
\* alternate, and both the old span fiber and the old p fiber are pending
\* deletion, tagged DELETION, in this order; no fiber is tagged UPDATE for
\* the old p.
SpanAndOldPDeletedNewPPlaced ==
  \A w \in 1..Len(fibers) :
    SpanAndPBecomeP(w) =>
      LET old == oldChildrenOf(fibers, w)
          new == childrenOf(fibers, w)
      IN /\ deletions = <<old[1], old[2]>>
         /\ fibers[old[1]].effectTag = "DELETION"
         /\ fibers[old[2]].effectTag = "DELETION"
         /\ Len(new) = 1
         /\ fibers[new[1]].type = "p"
         /\ fibers[new[1]].effectTag = "PLACEMENT"
         /\ fibers[new[1]].alternate = None
         /\ \A f \in treeOf(fibers, wipRoot) :
              fibers[f].alternate \notin {old[1], old[2]}

\* the div of a mounted div of a span and a p has been reconciled against
\* the single child p
SpanAndPReconciledAgainstP ==
  \E w \in 1..Len(fibers) :
    /\ SpanAndPBecomeP(w)
    /\ Len(childrenOf(fibers, w)) = 1

\* the DOM nodes of the nearest fibers with a dom below the fibers of
\* `children`, in the order of the fibers
RECURSIVE hostHandles(_, _)
hostHandles(fs, children) ==
  IF children = <<>> THEN <<>>
  ELSE (IF fs[Head(children)].dom # None THEN <<fs[Head(children)].dom>>
        ELSE hostHandles(fs, childrenOf(fs, Head(children))))
       \o hostHandles(fs, Tail(children))

\* C20 as stated: after every commit that completes, the children of the
\* DOM node of every fiber of the committed tree that has one, the mount
\* node of the root included, are exactly the DOM nodes of the nearest
\* fibers with a dom below that fiber, in the fibers' sibling order: no
\* node of a retired fiber is left and no node of a retained one is missing.
HostTreeMirrorsFiberTree ==
  [][(CommitRoot /\ pc' # "dead") =>
       \A f \in treeOf(fibers', currentRoot') :
         fibers'[f].dom # None =>
           nodes'[fibers'[f].dom].children
             = hostHandles(fibers', childrenOf(fibers', f))]_vars

\* ------------------------------------------------ setters and discarded renders
\* the actions of the setter calls made since the last commit, in the
\* order of the calls
RECURSIVE actionsOf(_)
actionsOf(calls) ==
  IF calls = <<>> THEN <<>>
  ELSE <<Head(calls).action>> \o actionsOf(Tail(calls))

\* the calls that went through the setter returned to `fiber`
callsThrough(calls, fiber) == SelectSeq(calls, LAMBDA call : call.fiber = fiber)

\* the step of commitRoot that commits the work-in-progress tree
CommitCompletes == CommitRoot /\ pc' = "idle"

\* C21: when a tree is committed, every Counter of it whose alternate is
\* the Counter of the tree committed before holds the alternate's state
\* with the actions of the calls made since that commit through the setter
\* of that alternate applied once each in the order of the calls, and an
\* empty queue - whether or not some of the calls discarded a render in
\* flight, and whatever render requests and workLoop invocations came
\* between them.
NoActionLostOrRepeated ==
  [][CommitCompletes =>
       \A f \in treeOf(fibers, wipRoot) :
         (/\ fibers[f].type = "Counter"
          /\ fibers[f].alternate # None
          /\ currentRoot # None
          /\ fibers[f].alternate \in treeOf(fibers, currentRoot)) =>
           /\ currentRoot' = wipRoot
           /\ fibers'[f].hooks =
                <<[state |-> applyActions(
                               fibers[fibers[f].alternate].hooks[1].state,
                               actionsOf(callsThrough(enqueued, fibers[f].alternate)), 1),
                   queue |-> <<>>]>>]_vars

\* a render is complete after three calls of the setter of the committed
\* Counter, an increment, a plain value and an increment, of which one
\* discarded a render that had already evaluated the Counter
ThreeCallsOneDiscarding ==
  /\ AboutToCommit
  /\ currentRoot # None
  /\ actionsOf(enqueued) = <<IncAction, ResetAction, IncAction>>
  /\ \E i \in 1..Len(enqueued) : enqueued[i].discarded
  /\ \E f \in treeOf(fibers, wipRoot) :
       /\ fibers[f].type = "Counter"
       /\ fibers[f].alternate \in treeOf(fibers, currentRoot)
       /\ \A i \in 1..Len(enqueued) : enqueued[i].fiber = fibers[f].alternate
       /\ fibers[f].hooks[1].state = ResetAction.value + 1

\* ------------------------------------------- the render phase and currentRoot
\* the fields of a fiber that the render phase assigns or uses
renderFields(fiber) ==
  [effectTag |-> fiber.effectTag, child |-> fiber.child,
   sibling |-> fiber.sibling, parent |-> fiber.parent, dom |-> fiber.dom,
   props |-> fiber.props,
   states |-> [i \in 1..Len(fiber.hooks) |-> fiber.hooks[i].state]]

\* C22: no step of performUnitOfWork, reconcileChildren included, changes
\* the effectTag, child, sibling, parent, dom, props or hook states of a
\* fiber reachable from currentRoot.
RenderLeavesCurrentTree ==
  [][(PerformUnitOfWork /\ currentRoot # None) =>
       \A f \in treeOf(fibers, currentRoot) :
         renderFields(fibers'[f]) = renderFields(fibers[f])]_vars

\* --------------------------------------------------- setters of old generations
\* the fibers of the earlier generations of a logical instance: the
\* alternate of a fiber, the alternate of that one, and so on
RECURSIVE earlierGenerations(_, _)
earlierGenerations(fs, fiber) ==
  IF fs[fiber].alternate = None THEN {}
  ELSE {fs[fiber].alternate} \cup earlierGenerations(fs, fs[fiber].alternate)

\* C23: when a tree is committed, every Counter of it that has been matched
\* by type with the Counter of the tree committed before holds that
\* Counter's state plus one for every call made since that commit, when
\* the calls all passed the increment to a setter returned to some earlier
\* generation of the instance, be it the last committed one or an older one.
EverySetterOfInstanceApplies ==
  [][CommitCompletes =>
       \A f \in treeOf(fibers, wipRoot) :
         (/\ fibers[f].type = "Counter"
          /\ fibers[f].alternate # None
          /\ \A i \in 1..Len(enqueued) :
               /\ enqueued[i].fiber \in earlierGenerations(fibers, f)
               /\ enqueued[i].action = IncAction) =>
           fibers'[f].hooks[1].state =
             fibers[fibers[f].alternate].hooks[1].state + Len(enqueued)]_vars

====
